---------------------------- MODULE Spec2Model ----------------------------
(***************************************************************************)
(* State-machine model of the AttestFHE contract                           *)
(* (src/frontend/web/src/App.tsx, lines 768-988).                          *)
(*                                                                         *)
(* Every public function of the contract is one action.  A call that       *)
(* reverts leaves the whole state untouched (EVM revert semantics); the     *)
(* error it raises is the value of the function's Result operator, a       *)
(* function of the call's inputs and of the state it is made in.           *)
(* block.timestamp is the variable now; requestIds handed out by           *)
(* FHE.requestDecryption are a fresh counter (nextRequestId); the event    *)
(* log is kept per batch (submitted), per request (requested, completed)   *)
(* and per provider (lastAccepted).  block.timestamp is positive and       *)
(* uint256 arithmetic does not overflow at the values explored.            *)
(***************************************************************************)
EXTENDS Integers, Sequences, FiniteSets, TLC

(***************************************************************************)
(* Bounds of the model.                                                    *)
(***************************************************************************)
StartTime == 100
\* block.timestamp ranges over StartTime .. StartTime + TimeSpan
TimeSpan == 1
\* behaviours of at most MaxCalls successful (state-changing) transactions
MaxCalls == 5

(***************************************************************************)
(* Program constants.                                                      *)
(***************************************************************************)
DefaultCooldown == 60
ExpectedCleartextLen == 32
\* toBytes32 of an euint32 that was declared and never assigned
UninitializedHandle == 0

(***************************************************************************)
(* Input domains.                                                          *)
(***************************************************************************)
Deployer == "alice"
Principals == {"alice", "bob"}
ZeroAddress == "0x0"
Addresses == Principals \cup {ZeroAddress}
Handles == {UninitializedHandle, 1, 2}
CooldownChoices == {0, 1, 2}
CleartextLens == {ExpectedCleartextLen - 1, ExpectedCleartextLen}
MaxTime == StartTime + TimeSpan
\* ids 1 .. MaxCalls + 1 can be opened; 0 and MaxCalls + 2 never are
BatchIds == 0 .. (MaxCalls + 2)
\* ids 1 .. MaxCalls can be issued; 0 and MaxCalls + 1 never are
RequestIds == 0 .. (MaxCalls + 1)
ThisContract == "AttestFHE"

VARIABLES
    owner,                      \* address public owner
    isProvider,                 \* mapping(address => bool)
    paused,                     \* bool public paused
    cooldownSeconds,            \* uint256 public cooldownSeconds
    lastSubmissionTime,         \* mapping(address => uint256)
    lastDecryptionRequestTime,  \* mapping(address => uint256)
    currentBatchId,             \* uint256 public currentBatchId
    batches,                    \* mapping(uint256 => Batch)
    decryptionContexts,         \* mapping(uint256 => DecryptionContext)
    nextRequestId,              \* the oracle bridge's request counter
    now,                        \* block.timestamp
    submitted,                  \* AttestationSubmitted log, handles per batchId
    completed,                  \* DecryptionCompleted log, count per requestId
    requested,                  \* DecryptionRequested log, batchId per requestId
    lastAccepted,               \* AttestationSubmitted log, block time of the
                                \* latest event per provider (0: none)
    opened,                     \* BatchOpened log, the batchIds in order
    closedLog,                  \* BatchClosed log, the batchIds in order
    membership,                 \* ProviderAdded / ProviderRemoved log, the
                                \* latest event per address ("none": no event)
    providerEvents,             \* ProviderAdded / ProviderRemoved log, the
                                \* number of events of each kind per address
    calls                       \* number of successful transactions so far

vars == <<owner, isProvider, paused, cooldownSeconds, lastSubmissionTime,
          lastDecryptionRequestTime, currentBatchId, batches,
          decryptionContexts, nextRequestId, now, submitted, completed,
          requested, lastAccepted, opened, closedLog, membership,
          providerEvents, calls>>

\* the contract storage (everything but the clock, the oracle and the logs)
storage == <<owner, isProvider, paused, cooldownSeconds, lastSubmissionTime,
             lastDecryptionRequestTime, currentBatchId, batches,
             decryptionContexts>>

\* the event log
logs == <<submitted, completed, requested, lastAccepted, opened, closedLog,
          membership, providerEvents>>

(***************************************************************************)
(* Storage defaults and pure helpers.                                      *)
(***************************************************************************)
\* an unwritten slot of mapping(uint256 => Batch)
ZeroBatch == [id |-> 0, active |-> FALSE, createdAt |-> 0, closedAt |-> 0]

\* bytes32(0): no keccak256 image
ZeroHash == <<>>

\* an unwritten slot of mapping(uint256 => DecryptionContext)
ZeroContext == [batchId |-> 0, stateHash |-> ZeroHash, processed |-> FALSE]

\* faulty variant: every list hashes to the zero value
hashCiphertexts_Zero(cts) == ZeroHash

\* keccak256(abi.encode(cts, address(this))): collision-resistant, so two
\* digests are equal exactly when the encoded pairs are
hashCiphertexts(cts) == <<cts, ThisContract>>

\* faulty variant: every handle counts as initialized
isInitialized_Always(h) == TRUE

\* x.isInitialized()
isInitialized(h) == h # UninitializedHandle

\* a call that reverts: every write of the transaction is rolled back
Reverted == UNCHANGED vars

\* a call that succeeds is one more transaction of the behaviour
Succeeded == calls < MaxCalls /\ calls' = calls + 1

(***************************************************************************)
(* Modifiers.                                                              *)
(***************************************************************************)
\* faulty variant: the owner gate never blocks
onlyOwner_Off(sender) == TRUE

onlyOwner(sender) == sender = owner

\* faulty variant: the provider gate never blocks
onlyProvider_Off(sender) == TRUE

\* faulty variant: the owner passes the provider gate as such
onlyProvider_OrOwner(sender) == isProvider[sender] \/ sender = owner

onlyProvider(sender) == isProvider[sender]

\* faulty variant: the pause gate never blocks
whenNotPaused_Off == TRUE

\* faulty variant: the pause gate reads the flag the wrong way round
whenNotPaused_Inverted == paused

whenNotPaused == ~paused

\* faulty variant: the window is one second too long (<= for <)
respectCooldown_Inclusive(sender) ==
    ~(now <= lastSubmissionTime[sender] + cooldownSeconds)

\* TRUE when the call passes the cooldown gate
respectCooldown(sender) ==
    ~(now < lastSubmissionTime[sender] + cooldownSeconds)

(***************************************************************************)
(* Constructor.                                                            *)
(***************************************************************************)
\* faulty variant: the new batch is written without the active flag
NewBatch_Inactive(id, t) ==
    [id |-> id, active |-> FALSE, createdAt |-> t, closedAt |-> 0]

\* the Batch record _openNewBatch writes
NewBatch(id, t) == [id |-> id, active |-> TRUE, createdAt |-> t, closedAt |-> 0]

Init ==
    /\ owner = Deployer
    /\ isProvider = [a \in Addresses |-> a = Deployer]
    /\ paused = FALSE
    /\ cooldownSeconds = DefaultCooldown
    /\ lastSubmissionTime = [a \in Addresses |-> 0]
    /\ lastDecryptionRequestTime = [a \in Addresses |-> 0]
    /\ currentBatchId = 1
    /\ batches = [b \in BatchIds |->
                    IF b = 1 THEN NewBatch(1, StartTime) ELSE ZeroBatch]
    /\ decryptionContexts = [r \in RequestIds |-> ZeroContext]
    /\ nextRequestId = 1
    /\ now = StartTime
    /\ submitted = [b \in BatchIds |-> <<>>]
    /\ completed = [r \in RequestIds |-> 0]
    /\ requested = [r \in RequestIds |-> 0]
    /\ lastAccepted = [a \in Addresses |-> 0]
    /\ opened = <<1>>
    /\ closedLog = <<>>
    /\ membership = [a \in Addresses |->
                         IF a = Deployer THEN "added" ELSE "none"]
    /\ providerEvents = [a \in Addresses |->
                             [added |-> IF a = Deployer THEN 1 ELSE 0,
                              removed |-> 0]]
    /\ calls = 0

(***************************************************************************)
(* AccessRegistry.                                                         *)
(***************************************************************************)
\* faulty variant: the zero address is refused as new owner
transferOwnershipResult_NoZero(sender, newOwner) ==
    IF ~onlyOwner(sender) THEN "NotOwner"
    ELSE IF newOwner = ZeroAddress THEN "Invalid owner"
    ELSE "ok"

transferOwnershipResult(sender, newOwner) ==
    IF ~onlyOwner(sender) THEN "NotOwner" ELSE "ok"

transferOwnership(sender, newOwner) ==
    LET res == transferOwnershipResult(sender, newOwner) IN
    IF res # "ok" THEN Reverted
    ELSE
        /\ Succeeded
        /\ owner' = newOwner
        /\ UNCHANGED <<isProvider, paused, cooldownSeconds, lastSubmissionTime,
                       lastDecryptionRequestTime, currentBatchId, batches,
                       decryptionContexts, nextRequestId, now, logs>>

\* faulty variant: the write and the event are not guarded by the flag
membershipChanges_Always(provider, target) == TRUE

\* if (!isProvider[provider]) / if (isProvider[provider]): the call brings
\* the flag to target only when it is not there yet
membershipChanges(provider, target) == isProvider[provider] # target

addProviderResult(sender, provider) ==
    IF ~onlyOwner(sender) THEN "NotOwner" ELSE "ok"

addProvider(sender, provider) ==
    LET res == addProviderResult(sender, provider) IN
    IF res # "ok" THEN Reverted
    ELSE
        /\ Succeeded
        /\ isProvider' = [isProvider EXCEPT ![provider] = TRUE]
        /\ membership' = IF membershipChanges(provider, TRUE)
                          THEN [membership EXCEPT ![provider] = "added"]
                          ELSE membership
        /\ providerEvents' =
               IF membershipChanges(provider, TRUE)
               THEN [providerEvents EXCEPT ![provider].added = @ + 1]
               ELSE providerEvents
        /\ UNCHANGED <<owner, paused, cooldownSeconds, lastSubmissionTime,
                       lastDecryptionRequestTime, currentBatchId, batches,
                       decryptionContexts, nextRequestId, now, submitted,
                       completed, requested, lastAccepted, opened, closedLog>>

removeProviderResult(sender, provider) ==
    IF ~onlyOwner(sender) THEN "NotOwner" ELSE "ok"

removeProvider(sender, provider) ==
    LET res == removeProviderResult(sender, provider) IN
    IF res # "ok" THEN Reverted
    ELSE
        /\ Succeeded
        /\ isProvider' = [isProvider EXCEPT ![provider] = FALSE]
        /\ membership' = IF membershipChanges(provider, FALSE)
                          THEN [membership EXCEPT ![provider] = "removed"]
                          ELSE membership
        /\ providerEvents' =
               IF membershipChanges(provider, FALSE)
               THEN [providerEvents EXCEPT ![provider].removed = @ + 1]
               ELSE providerEvents
        /\ UNCHANGED <<owner, paused, cooldownSeconds, lastSubmissionTime,
                       lastDecryptionRequestTime, currentBatchId, batches,
                       decryptionContexts, nextRequestId, now, submitted,
                       completed, requested, lastAccepted, opened, closedLog>>

(***************************************************************************)
(* PauseSwitch.                                                            *)
(***************************************************************************)
pauseResult(sender) ==
    IF ~onlyOwner(sender) THEN "NotOwner"
    ELSE IF ~whenNotPaused THEN "PausedError"
    ELSE "ok"

pause(sender) ==
    LET res == pauseResult(sender) IN
    IF res # "ok" THEN Reverted
    ELSE
        /\ Succeeded
        /\ paused' = TRUE
        /\ UNCHANGED <<owner, isProvider, cooldownSeconds, lastSubmissionTime,
                       lastDecryptionRequestTime, currentBatchId, batches,
                       decryptionContexts, nextRequestId, now, logs>>

\* faulty variant: unpause is refused unless the contract is paused
unpauseResult_WhenPaused(sender) ==
    IF ~onlyOwner(sender) THEN "NotOwner"
    ELSE IF whenNotPaused THEN "NotPaused"
    ELSE "ok"

unpauseResult(sender) ==
    IF ~onlyOwner(sender) THEN "NotOwner" ELSE "ok"

unpause(sender) ==
    LET res == unpauseResult(sender) IN
    IF res # "ok" THEN Reverted
    ELSE
        /\ Succeeded
        /\ paused' = FALSE
        /\ UNCHANGED <<owner, isProvider, cooldownSeconds, lastSubmissionTime,
                       lastDecryptionRequestTime, currentBatchId, batches,
                       decryptionContexts, nextRequestId, now, logs>>

(***************************************************************************)
(* CooldownGuard configuration.                                            *)
(***************************************************************************)
\* faulty variant: the require on newCooldown is missing
setCooldownSecondsResult_AllowZero(sender, newCooldown) ==
    IF ~onlyOwner(sender) THEN "NotOwner" ELSE "ok"

setCooldownSecondsResult(sender, newCooldown) ==
    IF ~onlyOwner(sender) THEN "NotOwner"
    ELSE IF ~(newCooldown > 0) THEN "Cooldown must be positive"
    ELSE "ok"

\* the arguments of CooldownSecondsUpdated: oldCooldown is read before
\* cooldownSeconds is written
cooldownSecondsUpdated(newCooldown) == <<cooldownSeconds, newCooldown>>

setCooldownSeconds(sender, newCooldown) ==
    LET res == setCooldownSecondsResult(sender, newCooldown) IN
    IF res # "ok" THEN Reverted
    ELSE
        /\ Succeeded
        /\ cooldownSeconds' = newCooldown
        /\ UNCHANGED <<owner, isProvider, paused, lastSubmissionTime,
                       lastDecryptionRequestTime, currentBatchId, batches,
                       decryptionContexts, nextRequestId, now, logs>>

(***************************************************************************)
(* BatchLedger.                                                            *)
(***************************************************************************)
\* faulty variant: the counter is not advanced, the id is assigned again
nextBatchId_Reuse(cur) == cur

\* currentBatchId++
nextBatchId(cur) == cur + 1

\* faulty variant: the counter moves on but no batch record is written
openNewBatch_NoRecord(bs, cur, t) == bs

\* _openNewBatch: the new Batch record under the advanced currentBatchId
openNewBatch(bs, cur, t) ==
    [bs EXCEPT ![nextBatchId(cur)] = NewBatch(nextBatchId(cur), t)]

\* faulty variant: the closed batch keeps active = true
closeBatch_KeepActive(b, t) == [b EXCEPT !.closedAt = t]

\* faulty variant: the closing time is not recorded
closeBatch_NoStamp(b, t) == [b EXCEPT !.active = FALSE]

\* the two writes closeCurrentBatch makes to the current batch
closeBatch(b, t) == [b EXCEPT !.active = FALSE, !.closedAt = t]

closeCurrentBatchResult(sender) ==
    IF ~onlyOwner(sender) THEN "NotOwner"
    ELSE IF batches[currentBatchId].id = 0 THEN "InvalidBatch"
    ELSE IF ~batches[currentBatchId].active THEN "BatchNotActive"
    ELSE "ok"

closeCurrentBatch(sender) ==
    LET res == closeCurrentBatchResult(sender) IN
    IF res # "ok" THEN Reverted
    ELSE
        /\ Succeeded
        /\ batches' = openNewBatch(
               [batches EXCEPT ![currentBatchId] = closeBatch(@, now)],
               currentBatchId, now)
        /\ currentBatchId' = nextBatchId(currentBatchId)
        /\ closedLog' = Append(closedLog, currentBatchId)
        /\ opened' = Append(opened, nextBatchId(currentBatchId))
        /\ UNCHANGED <<owner, isProvider, paused, cooldownSeconds,
                       lastSubmissionTime, lastDecryptionRequestTime,
                       decryptionContexts, nextRequestId, now, submitted,
                       completed, requested, lastAccepted, membership,
                       providerEvents>>

(***************************************************************************)
(* AttestationSubmission.                                                  *)
(***************************************************************************)
\* faulty variant: a submission after a close lands in the batch just closed
submissionBatchId_Previous ==
    IF currentBatchId > 1 THEN currentBatchId - 1 ELSE currentBatchId

\* the batchId an accepted submission is emitted under
submissionBatchId == currentBatchId

\* faulty variant: the pause gate is evaluated before the provider gate
submitAttestationResult_PauseFirst(sender, encryptedData) ==
    IF ~whenNotPaused THEN "PausedError"
    ELSE IF ~onlyProvider(sender) THEN "NotProvider"
    ELSE IF ~respectCooldown(sender) THEN "CooldownActive"
    ELSE IF ~isInitialized(encryptedData) THEN "FHE value not initialized"
    ELSE IF ~batches[currentBatchId].active THEN "BatchNotActive"
    ELSE "ok"

submitAttestationResult(sender, encryptedData) ==
    IF ~onlyProvider(sender) THEN "NotProvider"
    ELSE IF ~whenNotPaused THEN "PausedError"
    ELSE IF ~respectCooldown(sender) THEN "CooldownActive"
    ELSE IF ~isInitialized(encryptedData) THEN "FHE value not initialized"
    ELSE IF ~batches[currentBatchId].active THEN "BatchNotActive"
    ELSE "ok"

\* faulty variant: the timestamp is written under the owner's key
stampSubmission_Owner(sender) == [lastSubmissionTime EXCEPT ![owner] = now]

\* lastSubmissionTime[msg.sender] = block.timestamp
stampSubmission(sender) == [lastSubmissionTime EXCEPT ![sender] = now]

submitAttestation(sender, encryptedData) ==
    LET res == submitAttestationResult(sender, encryptedData) IN
    IF res # "ok" THEN Reverted
    ELSE
        /\ Succeeded
        /\ lastSubmissionTime' = stampSubmission(sender)
        /\ submitted' = [submitted EXCEPT
                           ![submissionBatchId] = Append(@, encryptedData)]
        /\ lastAccepted' = [lastAccepted EXCEPT ![sender] = now]
        /\ UNCHANGED <<owner, isProvider, paused, cooldownSeconds,
                       lastDecryptionRequestTime, currentBatchId, batches,
                       decryptionContexts, nextRequestId, now, completed,
                       requested, opened, closedLog, membership,
                       providerEvents>>

(***************************************************************************)
(* DecryptionCoordinator.                                                  *)
(***************************************************************************)
\* euint32 memory dummyCiphertext; the value asEuint32(0) returns is dropped
dummyCiphertext == UninitializedHandle

\* faulty variant: the request hashes the batch's submissions while the
\* callback still hashes the placeholder
requestCiphertexts_Live(batchId) == submitted[batchId]

\* the ciphertext list requestBatchValidation builds for batchId
requestCiphertexts(batchId) == <<dummyCiphertext>>

\* the ciphertext list myCallback rebuilds for requestId
callbackCiphertexts(requestId) == <<dummyCiphertext>>

\* faulty variant: the current open batch passes the lifecycle condition
invalidBatch_OpenAllowed(batchId) ==
    \/ batchId = 0
    \/ batchId > currentBatchId

\* faulty variant: a batch that was requested before is refused
invalidBatch_AlreadyRequested(batchId) ==
    \/ batchId = 0
    \/ batchId >= currentBatchId
    \/ batches[batchId].closedAt = 0
    \/ \E r \in RequestIds : requested[r] = batchId

\* the lifecycle condition of requestBatchValidation
invalidBatch(batchId) ==
    \/ batchId = 0
    \/ batchId >= currentBatchId
    \/ batches[batchId].closedAt = 0

requestBatchValidationResult(sender, batchId) ==
    IF ~onlyOwner(sender) THEN "NotOwner"
    ELSE IF ~whenNotPaused THEN "PausedError"
    ELSE IF ~respectCooldown(sender) THEN "CooldownActive"
    ELSE IF invalidBatch(batchId) THEN "InvalidBatch"
    ELSE "ok"

\* the DecryptionContext requestBatchValidation stores
newContext(batchId) ==
    [batchId |-> batchId,
     stateHash |-> hashCiphertexts(requestCiphertexts(batchId)),
     processed |-> FALSE]

requestBatchValidation(sender, batchId) ==
    LET res == requestBatchValidationResult(sender, batchId) IN
    IF res # "ok" THEN Reverted
    ELSE
        /\ Succeeded
        /\ lastDecryptionRequestTime' =
               [lastDecryptionRequestTime EXCEPT ![sender] = now]
        /\ decryptionContexts' =
               [decryptionContexts EXCEPT ![nextRequestId] = newContext(batchId)]
        /\ nextRequestId' = nextRequestId + 1
        /\ requested' = [requested EXCEPT ![nextRequestId] = batchId]
        /\ UNCHANGED <<owner, isProvider, paused, cooldownSeconds,
                       lastSubmissionTime, currentBatchId, batches, now,
                       submitted, completed, lastAccepted, opened, closedLog,
                       membership,
                       providerEvents>>

\* faulty variant: the stored hash is not compared
myCallbackResult_NoHashCheck(requestId, cleartextsLen, proofOk) ==
    IF decryptionContexts[requestId].processed THEN "ReplayAttempt"
    ELSE IF ~proofOk THEN "DecryptionFailed"
    ELSE IF cleartextsLen # ExpectedCleartextLen THEN "DecryptionFailed"
    ELSE "ok"

\* faulty variant: the length of the cleartexts is not checked
myCallbackResult_NoLengthCheck(requestId, cleartextsLen, proofOk) ==
    IF decryptionContexts[requestId].processed THEN "ReplayAttempt"
    ELSE IF hashCiphertexts(callbackCiphertexts(requestId))
              # decryptionContexts[requestId].stateHash THEN "StateMismatch"
    ELSE IF ~proofOk THEN "DecryptionFailed"
    ELSE "ok"

\* faulty variant: the callback is put behind the pause gate
myCallbackResult_WhenNotPaused(requestId, cleartextsLen, proofOk) ==
    IF ~whenNotPaused THEN "PausedError"
    ELSE IF decryptionContexts[requestId].processed THEN "ReplayAttempt"
    ELSE IF hashCiphertexts(callbackCiphertexts(requestId))
              # decryptionContexts[requestId].stateHash THEN "StateMismatch"
    ELSE IF ~proofOk THEN "DecryptionFailed"
    ELSE IF cleartextsLen # ExpectedCleartextLen THEN "DecryptionFailed"
    ELSE "ok"

\* proofOk is the outcome of FHE.checkSignatures(requestId, cleartexts, proof)
myCallbackResult(requestId, cleartextsLen, proofOk) ==
    IF decryptionContexts[requestId].processed THEN "ReplayAttempt"
    ELSE IF hashCiphertexts(callbackCiphertexts(requestId))
              # decryptionContexts[requestId].stateHash THEN "StateMismatch"
    ELSE IF ~proofOk THEN "DecryptionFailed"
    ELSE IF cleartextsLen # ExpectedCleartextLen THEN "DecryptionFailed"
    ELSE "ok"

\* faulty variant: the processed flag is not set
markProcessed_Skip(ctx) == ctx

\* faulty variant: the context is deleted once the result is in
markProcessed_Delete(ctx) == ZeroContext

\* the write myCallback makes to the request's context
markProcessed(ctx) == [ctx EXCEPT !.processed = TRUE]

\* faulty variant: the accepted callback also stamps the validated batch
myCallback_StampsBatch(sender, requestId, cleartextsLen, proofOk) ==
    LET res == myCallbackResult(requestId, cleartextsLen, proofOk) IN
    IF res # "ok" THEN Reverted
    ELSE
        /\ Succeeded
        /\ decryptionContexts' =
               [decryptionContexts EXCEPT ![requestId] = markProcessed(@)]
        /\ completed' = [completed EXCEPT ![requestId] = @ + 1]
        /\ batches' = [batches EXCEPT
                         ![decryptionContexts[requestId].batchId].closedAt =
                             now + 1]
        /\ UNCHANGED <<owner, isProvider, paused, cooldownSeconds,
                       lastSubmissionTime, lastDecryptionRequestTime,
                       currentBatchId, nextRequestId, now, submitted,
                       requested, lastAccepted, opened, closedLog, membership,
                       providerEvents>>

myCallback(sender, requestId, cleartextsLen, proofOk) ==
    LET res == myCallbackResult(requestId, cleartextsLen, proofOk) IN
    IF res # "ok" THEN Reverted
    ELSE
        /\ Succeeded
        /\ decryptionContexts' =
               [decryptionContexts EXCEPT ![requestId] = markProcessed(@)]
        /\ completed' = [completed EXCEPT ![requestId] = @ + 1]
        /\ UNCHANGED <<owner, isProvider, paused, cooldownSeconds,
                       lastSubmissionTime, lastDecryptionRequestTime,
                       currentBatchId, batches, nextRequestId, now, submitted,
                       requested, lastAccepted, opened, closedLog, membership,
                       providerEvents>>

(***************************************************************************)
(* The clock and the specification.                                        *)
(***************************************************************************)
\* a later block: block.timestamp advances
Tick ==
    /\ now < MaxTime
    /\ now' = now + 1
    /\ UNCHANGED <<storage, nextRequestId, logs, calls>>

Next ==
    \/ \E s \in Principals, a \in Addresses : transferOwnership(s, a)
    \/ \E s \in Principals, a \in Principals : addProvider(s, a)
    \/ \E s \in Principals, a \in Principals : removeProvider(s, a)
    \/ \E s \in Principals : pause(s)
    \/ \E s \in Principals : unpause(s)
    \/ \E s \in Principals, c \in CooldownChoices : setCooldownSeconds(s, c)
    \/ \E s \in Principals : closeCurrentBatch(s)
    \/ \E s \in Principals, h \in Handles : submitAttestation(s, h)
    \/ \E s \in Principals, b \in 0 .. (currentBatchId + 1) :
          requestBatchValidation(s, b)
    \/ \E s \in Principals, r \in 0 .. nextRequestId, n \in CleartextLens,
          ok \in BOOLEAN : myCallback(s, r, n, ok)
    \/ Tick

Spec == Init /\ [][Next]_vars

(***************************************************************************)
(* Properties.                                                             *)
(***************************************************************************)
\* requestIds that requestBatchValidation has returned
Issued == {r \in RequestIds : requested[r] # 0}

\* the ciphertext list whose hash is stored for an issued request
HashedList(r) == decryptionContexts[r].stateHash[1]

\* some callback input the oracle could deliver for request r
CallbackInputs == CleartextLens \X BOOLEAN

\* C1: for every requestId the callback is consumed at most once: at most
\* one DecryptionCompleted is logged per requestId, the processed flag is
\* true exactly from the one successful callback on (it never returns to
\* false), and every callback for a processed request fails with
\* ReplayAttempt whatever its proof and cleartexts.
C1_CallbackConsumedAtMostOnce ==
    \A r \in RequestIds :
        /\ completed[r] <= 1
        /\ decryptionContexts[r].processed <=> (completed[r] = 1)
        /\ decryptionContexts[r].processed =>
               \A in \in CallbackInputs :
                   myCallbackResult(r, in[1], in[2]) = "ReplayAttempt"

\* a request has been consumed by a successful callback
C1_Witness ==
    \E r \in Issued :
        /\ decryptionContexts[r].processed
        /\ completed[r] = 1
        /\ myCallbackResult(r, ExpectedCleartextLen, TRUE) = "ReplayAttempt"

\* C2 (as claimed): when the ciphertext list recorded for the batch of a
\* pending request differs from the list that was hashed at request time,
\* every callback for that request fails with StateMismatch.
C2_DriftFailsStateMismatch ==
    \A r \in Issued :
        (/\ ~decryptionContexts[r].processed
         /\ submitted[requested[r]] # HashedList(r))
        => \A in \in CallbackInputs :
               myCallbackResult(r, in[1], in[2]) = "StateMismatch"

\* C3 (as claimed): the hash stored for an issued request is the hash of
\* the ordered list of handles submitted to the request's batch.
C3_HashOverSubmittedList ==
    \A r \in Issued :
        decryptionContexts[r].stateHash
            = hashCiphertexts(submitted[requested[r]])

\* C4: in every reachable state exactly one batch is active, and it is the
\* batch whose id is currentBatchId.
C4_ExactlyOneActive ==
    /\ Cardinality({b \in BatchIds : batches[b].active}) = 1
    /\ batches[currentBatchId].active
    /\ batches[currentBatchId].id = currentBatchId

\* a batch has been closed and its successor opened
C4_Witness ==
    /\ currentBatchId = 2
    /\ ~batches[1].active
    /\ batches[1].closedAt # 0
    /\ batches[2].active

\* C5: every accepted submission is logged under the batch that is current
\* and active when the call is made, so no batch that is closed (or not yet
\* opened) ever receives a submission.
C5_SubmitTargetsActiveBatch ==
    [][\A b \in BatchIds :
          submitted'[b] # submitted[b] =>
              /\ b = currentBatchId
              /\ batches[b].active
              /\ batches'[b].active]_vars

\* a submission made after closeCurrentBatch sits in the new batch
C5_Witness ==
    /\ currentBatchId = 2
    /\ ~batches[1].active
    /\ submitted[2] # <<>>

\* C6 (as claimed): a callback for a requestId that was never issued fails
\* with ReplayAttempt.
C6_AbsentFailsReplayAttempt ==
    \A r \in RequestIds \ Issued :
        \A in \in CallbackInputs :
            myCallbackResult(r, in[1], in[2]) = "ReplayAttempt"

\* C6 (amended): a callback for a requestId that was never issued fails
\* with StateMismatch, and no such requestId is ever processed or completed.
C6_AbsentFailsStateMismatch ==
    \A r \in RequestIds \ Issued :
        /\ \A in \in CallbackInputs :
               myCallbackResult(r, in[1], in[2]) = "StateMismatch"
        /\ ~decryptionContexts[r].processed
        /\ completed[r] = 0

\* requests have been issued and consumed, and an unissued requestId remains
C6_Witness ==
    /\ \E r \in Issued : decryptionContexts[r].processed
    /\ \E r \in RequestIds \ Issued :
           myCallbackResult(r, ExpectedCleartextLen, TRUE) = "StateMismatch"

\* C7: with the owner calling and the pause and cooldown gates passing,
\* requestBatchValidation(batchId) fails with InvalidBatch exactly when
\* batchId is 0 or >= currentBatchId (the current open batch included) and
\* succeeds for every closed batch; a request exists only for a requestId
\* that was issued, it holds the batchId it was issued for, a closed batch,
\* and it is unprocessed until a callback completes it.
C7_InvalidBatchExactly ==
    /\ \A s \in Principals, b \in BatchIds :
           (onlyOwner(s) /\ whenNotPaused /\ respectCooldown(s)) =>
               /\ (requestBatchValidationResult(s, b) = "InvalidBatch")
                      <=> (b = 0 \/ b >= currentBatchId)
               /\ (0 < b /\ b < currentBatchId) =>
                      requestBatchValidationResult(s, b) = "ok"
    /\ \A r \in Issued :
           /\ decryptionContexts[r].batchId = requested[r]
           /\ 0 < requested[r] /\ requested[r] < currentBatchId
           /\ decryptionContexts[r].processed <=> (completed[r] = 1)
    /\ \A r \in RequestIds \ Issued : decryptionContexts[r] = ZeroContext

\* a request for closed batch 1 is stored and pending, and the owner's
\* gates pass again
C7_Witness ==
    /\ \E r \in Issued :
           /\ decryptionContexts[r].batchId = 1
           /\ ~decryptionContexts[r].processed
    /\ \E s \in Principals :
           /\ requestBatchValidationResult(s, 1) = "ok"
           /\ requestBatchValidationResult(s, 2) = "InvalidBatch"

\* C8 (as claimed): the cooldown gate of requestBatchValidation is keyed on
\* the caller's last decryption request: the owner's call (not paused)
\* fails with CooldownActive exactly when
\* now < lastDecryptionRequestTime[caller] + cooldownSeconds.
C8_RequestCooldownKeyedOnRequests ==
    \A s \in Principals, b \in BatchIds :
        (onlyOwner(s) /\ whenNotPaused) =>
            ((requestBatchValidationResult(s, b) = "CooldownActive")
                <=> (now < lastDecryptionRequestTime[s] + cooldownSeconds))

\* C9: lastSubmissionTime[p] is the time of p's latest accepted submission
\* (no other provider's submission moves it), and after an accepted
\* submission a further submit by p (a provider, not paused) fails with
\* CooldownActive exactly while now < that time + cooldownSeconds.
C9_SubmitCooldownWindow ==
    \A p \in Principals :
        /\ lastSubmissionTime[p] = lastAccepted[p]
        /\ (lastAccepted[p] # 0 /\ onlyProvider(p) /\ whenNotPaused) =>
               \A h \in Handles :
                   (submitAttestationResult(p, h) = "CooldownActive")
                       <=> (now < lastAccepted[p] + cooldownSeconds)

\* p submitted, the interval has elapsed and p's next submit is accepted,
\* while another provider is still inside its own window
C9_Witness ==
    \E p, q \in Principals :
        /\ p # q
        /\ lastAccepted[p] # 0
        /\ now >= lastAccepted[p] + cooldownSeconds
        /\ submitAttestationResult(p, 1) = "ok"
        /\ submitAttestationResult(q, 1) = "CooldownActive"

\* C10 (as claimed): while paused, submit, requestBatchValidation,
\* closeCurrentBatch and setCooldownSeconds, made by a caller with the
\* role the operation requires, all fail with PausedError.
C10_PauseGatesAllOperations ==
    paused =>
        \A s \in Principals :
            /\ onlyProvider(s) =>
                   \A h \in Handles :
                       submitAttestationResult(s, h) = "PausedError"
            /\ onlyOwner(s) =>
                   /\ \A b \in BatchIds :
                          requestBatchValidationResult(s, b) = "PausedError"
                   /\ closeCurrentBatchResult(s) = "PausedError"
                   /\ \A c \in CooldownChoices :
                          setCooldownSecondsResult(s, c) = "PausedError"

\* C10 (amended): while paused, submit by a provider and
\* requestBatchValidation by the owner fail with PausedError; the owner's
\* closeCurrentBatch and setCooldownSeconds are not gated by the pause:
\* closeCurrentBatch succeeds and setCooldownSeconds succeeds for every
\* positive value.
C10_PauseGatesSubmitAndRequest ==
    paused =>
        \A s \in Principals :
            /\ onlyProvider(s) =>
                   \A h \in Handles :
                       submitAttestationResult(s, h) = "PausedError"
            /\ onlyOwner(s) =>
                   /\ \A b \in BatchIds :
                          requestBatchValidationResult(s, b) = "PausedError"
                   /\ closeCurrentBatchResult(s) = "ok"
                   /\ \A c \in CooldownChoices :
                          c > 0 => setCooldownSecondsResult(s, c) = "ok"

\* the contract is paused with an owner and a provider present, after a
\* batch was closed
C10_Witness ==
    /\ paused
    /\ \E s \in Principals : onlyOwner(s)
    /\ \E s \in Principals :
           /\ onlyProvider(s)
           /\ submitAttestationResult(s, 1) = "PausedError"
    /\ currentBatchId = 2

\* C11: currentBatchId is 1 after construction and is one more than the
\* number of successful closeCurrentBatch calls (nothing else moves it);
\* the ids of the opened batches are 1, 2, ..., currentBatchId in that
\* order, each assigned once, and batch n's record carries id n.
C11_BatchIdsSequential ==
    /\ currentBatchId = 1 + Len(closedLog)
    /\ Len(opened) = currentBatchId
    /\ \A i \in 1 .. Len(opened) : opened[i] = i
    /\ \A i \in 1 .. Len(closedLog) : closedLog[i] = i
    /\ \A b \in BatchIds :
           batches[b].id = (IF 1 <= b /\ b <= currentBatchId THEN b ELSE 0)
    /\ (calls = 0) => (currentBatchId = 1)

\* two batches have been closed: ids 1, 2, 3 were assigned in turn
C11_Witness ==
    /\ currentBatchId = 3
    /\ opened = <<1, 2, 3>>
    /\ closedLog = <<1, 2>>

\* C12: a caller that is not the owner gets NotOwner from every owner-only
\* operation (transferOwnership, addProvider, removeProvider, pause,
\* unpause, setCooldownSeconds, closeCurrentBatch, requestBatchValidation),
\* whatever the arguments and whatever the pause, cooldown and batch state;
\* the call is reverted, so it is not enabled as a state-changing step.
C12_NonOwnerFailsNotOwner ==
    \A s \in Principals :
        s # owner =>
            /\ \A a \in Addresses : transferOwnershipResult(s, a) = "NotOwner"
            /\ \A p \in Principals :
                   /\ addProviderResult(s, p) = "NotOwner"
                   /\ removeProviderResult(s, p) = "NotOwner"
            /\ pauseResult(s) = "NotOwner"
            /\ unpauseResult(s) = "NotOwner"
            /\ \A c \in CooldownChoices :
                   setCooldownSecondsResult(s, c) = "NotOwner"
            /\ closeCurrentBatchResult(s) = "NotOwner"
            /\ \A b \in BatchIds :
                   requestBatchValidationResult(s, b) = "NotOwner"
            /\ ~ ENABLED (/\ \/ \E a \in Addresses : transferOwnership(s, a)
                             \/ \E p \in Principals : addProvider(s, p)
                             \/ \E p \in Principals : removeProvider(s, p)
                             \/ pause(s)
                             \/ unpause(s)
                             \/ \E c \in CooldownChoices :
                                    setCooldownSeconds(s, c)
                             \/ closeCurrentBatch(s)
                             \/ \E b \in BatchIds :
                                    requestBatchValidation(s, b)
                          /\ vars' # vars)

\* a non-owner faces a closed batch it could ask validation for, a paused
\* contract it could unpause, and is turned away with NotOwner
C12_Witness ==
    \E s \in Principals :
        /\ s # owner
        /\ paused
        /\ currentBatchId = 2
        /\ ~invalidBatch(1)
        /\ requestBatchValidationResult(s, 1) = "NotOwner"
        /\ unpauseResult(s) = "NotOwner"

\* C13: the provider set is exactly the addresses whose latest membership
\* event is ProviderAdded; a caller outside it (never added, or removed
\* since) gets NotProvider from submitAttestation for every handle, the
\* call changes nothing (no submission logged, lastSubmissionTime kept),
\* and every address with an accepted submission has been added.
C13_SubmitOnlyByProvider ==
    \A s \in Principals :
        /\ isProvider[s] <=> membership[s] = "added"
        /\ lastAccepted[s] # 0 => membership[s] # "none"
        /\ membership[s] \in {"none", "removed"} =>
               \A h \in Handles :
                   /\ submitAttestationResult(s, h) = "NotProvider"
                   /\ ~ ENABLED (submitAttestation(s, h) /\ vars' # vars)

\* a removed provider whose earlier submission was accepted and whose
\* cooldown has run out, next to an address that was never added: both
\* are turned away although the contract is not paused
C13_Witness ==
    \E s, t \in Principals :
        /\ membership[s] = "removed"
        /\ lastAccepted[s] # 0
        /\ respectCooldown(s)
        /\ membership[t] = "none"
        /\ whenNotPaused
        /\ submitAttestationResult(s, 1) = "NotProvider"
        /\ submitAttestationResult(t, 1) = "NotProvider"

\* a request that was issued and not yet consumed
Pending == {r \in Issued : ~decryptionContexts[r].processed}

\* C14: for a pending request, a callback whose proof fails or whose
\* cleartexts are not 32 bytes long gets DecryptionFailed and changes
\* nothing (processed stays false, no completion is logged), and a callback
\* with a valid proof and 32 bytes is still accepted.
C14_FailedDecryptionKeepsPending ==
    \A r \in Pending :
        /\ \A in \in CallbackInputs :
               (~in[2] \/ in[1] # ExpectedCleartextLen) =>
                   /\ myCallbackResult(r, in[1], in[2]) = "DecryptionFailed"
                   /\ \A s \in Principals :
                          ~ ENABLED (/\ myCallback(s, r, in[1], in[2])
                                     /\ vars' # vars)
        /\ completed[r] = 0
        /\ myCallbackResult(r, ExpectedCleartextLen, TRUE) = "ok"

\* a pending request that rejects a short cleartext and a failed proof
\* and would accept the valid callback
C14_Witness ==
    \E r \in Pending :
        /\ myCallbackResult(r, ExpectedCleartextLen - 1, TRUE)
               = "DecryptionFailed"
        /\ myCallbackResult(r, ExpectedCleartextLen, FALSE)
               = "DecryptionFailed"
        /\ myCallbackResult(r, ExpectedCleartextLen, TRUE) = "ok"
        /\ completed[r] = 0

\* the valid callback for r sent by s goes through and consumes r
CallbackCompletes(s, r) ==
    ENABLED (/\ myCallback(s, r, ExpectedCleartextLen, TRUE)
             /\ decryptionContexts'[r].processed
             /\ completed'[r] = completed[r] + 1)

\* C15: the callback's outcome does not depend on the sender nor on the
\* owner, provider, pause or cooldown gates: the valid callback for a
\* pending request goes through and consumes it for every principal, owner
\* or not, provider or not, paused or not, whatever the cooldown timestamps.
C15_CallbackIgnoresCallerAndGates ==
    \A r \in Pending, s \in Principals :
        calls < MaxCalls => CallbackCompletes(s, r)

\* the contract is paused and a request is pending: the valid callback
\* goes through for a sender that is neither owner nor provider and for a
\* sender whose cooldown window is still open
C15_Witness ==
    \E r \in Pending, s, t \in Principals :
        /\ paused
        /\ s # owner
        /\ ~isProvider[s]
        /\ ~respectCooldown(t)
        /\ CallbackCompletes(s, r)
        /\ CallbackCompletes(t, r)

\* a step keeps every issued request: it stays in the DecryptionRequested
\* log with its batchId, its context keeps batchId and stateHash, and the
\* processed flag changes only from false to true, together with the one
\* DecryptionCompleted event of the request
RequestsKept ==
    \A r \in Issued :
        /\ requested'[r] = requested[r]
        /\ decryptionContexts'[r].batchId = decryptionContexts[r].batchId
        /\ decryptionContexts'[r].stateHash = decryptionContexts[r].stateHash
        /\ decryptionContexts[r].processed => decryptionContexts'[r].processed
        /\ decryptionContexts'[r].processed
               <=> completed'[r] = 1

\* a pending request carries the batchId it was issued for and a non-zero
\* hash, and the valid callback for it is accepted
PendingCompletable ==
    \A r \in Pending :
        /\ decryptionContexts[r].batchId = requested[r]
        /\ decryptionContexts[r].stateHash # ZeroHash
        /\ myCallbackResult(r, ExpectedCleartextLen, TRUE) = "ok"

\* C16: a pending decryption request is never cancelled or deleted: no
\* operation removes an issued request or rewrites its batchId or hash,
\* only its own accepted callback sets processed, and while it is pending
\* the valid callback can still complete it.
C16_PendingRequestPersists == [](PendingCompletable) /\ [][RequestsKept]_vars

\* request 1 is still pending, with the batchId it was issued for, after a
\* later request was issued and consumed and the contract was paused
C16_Witness ==
    /\ 1 \in Pending
    /\ 2 \in Issued
    /\ decryptionContexts[2].processed
    /\ paused
    /\ decryptionContexts[1].batchId = requested[1]
    /\ myCallbackResult(1, ExpectedCleartextLen, TRUE) = "ok"

\* the provider of the end-to-end sequence, an address other than the
\* deployer; its ciphertext is handle 1
ScenarioProvider == "bob"

\* the state after the first n successful calls of the sequence:
\* addProvider(P), P's submit into batch 1, closeCurrentBatch,
\* requestBatchValidation(1), the valid callback
ScenarioAfter(n) ==
    /\ calls = n
    /\ owner = Deployer
    /\ (n >= 1) => membership[ScenarioProvider] = "added"
    /\ (n >= 2) => /\ submitted[1] = <<1>>
                   /\ lastAccepted[ScenarioProvider] # 0
    /\ (n >= 3) => /\ closedLog = <<1>>
                   /\ ~batches[1].active
                   /\ batches[1].closedAt # 0
                   /\ batches[2].active
    /\ (n >= 4) => /\ requested[1] = 1
                   /\ decryptionContexts[1].batchId = 1
    /\ (n >= 5) => /\ completed[1] = 1
                   /\ decryptionContexts[1].processed

\* C17: from the constructed state every step of the end-to-end sequence
\* is accepted and leads to the next stage: the owner adds P, P submits
\* into batch 1, the owner closes batch 1 (batch 2 becomes active), the
\* owner requests validation of batch 1 and gets request 1, the valid
\* callback for request 1 marks it processed and logs the completion; at
\* the end every further callback for request 1 gets ReplayAttempt.
C17_EndToEndSequence ==
    /\ ScenarioAfter(0) =>
           ENABLED (/\ addProvider(owner, ScenarioProvider)
                    /\ ScenarioAfter(1)')
    /\ ScenarioAfter(1) =>
           ENABLED (/\ submitAttestation(ScenarioProvider, 1)
                    /\ ScenarioAfter(2)')
    /\ ScenarioAfter(2) =>
           ENABLED (closeCurrentBatch(owner) /\ ScenarioAfter(3)')
    /\ ScenarioAfter(3) =>
           /\ nextRequestId = 1
           /\ ENABLED (requestBatchValidation(owner, 1) /\ ScenarioAfter(4)')
    /\ ScenarioAfter(4) =>
           \A s \in Principals :
               ENABLED (/\ myCallback(s, 1, ExpectedCleartextLen, TRUE)
                        /\ ScenarioAfter(5)')
    /\ ScenarioAfter(5) =>
           \A in \in CallbackInputs :
               myCallbackResult(1, in[1], in[2]) = "ReplayAttempt"

\* the end of the sequence: five successful calls, request 1 consumed, the
\* repeated callback refused
C17_Witness ==
    /\ ScenarioAfter(5)
    /\ myCallbackResult(1, ExpectedCleartextLen, TRUE) = "ReplayAttempt"

\* a submit that passes every gate other than the pause gate
OtherwiseAccepted(s, h) ==
    /\ onlyProvider(s)
    /\ respectCooldown(s)
    /\ isInitialized(h)

\* the owner's unpause goes through and the submit of h by s is accepted
\* in the state it leaves
UnpauseReopens(s, h) ==
    ENABLED (unpause(owner) /\ (submitAttestationResult(s, h) = "ok")')

\* C18: while the contract is paused a submit that passes every other gate
\* gets PausedError and changes nothing (cooldown and batch state are
\* kept), and once the owner has unpaused the same submit by the same
\* provider is accepted; when not paused it is accepted as it stands, and
\* the owner's pause turns it into a PausedError.
C18_PauseThenUnpauseSubmit ==
    \A s \in Principals, h \in Handles :
        OtherwiseAccepted(s, h) =>
            /\ paused =>
                   /\ submitAttestationResult(s, h) = "PausedError"
                   /\ ~ ENABLED (submitAttestation(s, h) /\ vars' # vars)
                   /\ (calls < MaxCalls /\ owner \in Principals) =>
                          UnpauseReopens(s, h)
            /\ ~paused =>
                   /\ submitAttestationResult(s, h) = "ok"
                   /\ (calls < MaxCalls /\ owner \in Principals) =>
                          ENABLED (/\ pause(owner)
                                   /\ (submitAttestationResult(s, h)
                                           = "PausedError")')

\* the owner has paused after a provider's accepted submission and the
\* cooldown has run out: the provider's next submit is refused with
\* PausedError and would be accepted after the owner's unpause
C18_Witness ==
    \E s \in Principals :
        /\ paused
        /\ lastAccepted[s] # 0
        /\ OtherwiseAccepted(s, 2)
        /\ submitAttestationResult(s, 2) = "PausedError"
        /\ UnpauseReopens(s, 2)

\* C19: the owner's pause() on a paused contract gets PausedError and
\* changes nothing (paused stays true); the owner's unpause() is accepted
\* in every state, paused or not, and always leaves paused false.
C19_RepauseFailsUnpauseAlways ==
    \A s \in Principals :
        onlyOwner(s) =>
            /\ paused =>
                   /\ pauseResult(s) = "PausedError"
                   /\ ~ ENABLED (pause(s) /\ vars' # vars)
            /\ unpauseResult(s) = "ok"
            /\ calls < MaxCalls =>
                   /\ ENABLED (unpause(s) /\ calls' = calls + 1 /\ ~paused')
                   /\ ~ ENABLED (unpause(s) /\ paused')

\* the contract is paused and the owner is at hand: a second pause() is
\* refused, unpause() would clear the flag
C19_Witness ==
    \E s \in Principals :
        /\ onlyOwner(s)
        /\ paused
        /\ pauseResult(s) = "PausedError"
        /\ unpauseResult(s) = "ok"
        /\ ENABLED (unpause(s) /\ ~paused')

\* the current batch was opened by a closeCurrentBatch of this very block
\* time and nothing has been submitted into it yet
JustClosed ==
    /\ closedLog # <<>>
    /\ batches[currentBatchId - 1].closedAt = now
    /\ submitted[currentBatchId] = <<>>

\* C20 as stated: right after closeCurrentBatch a submit that passes every
\* other gate gets BatchNotActive.
C20_SubmitAfterCloseFailsBatchNotActive ==
    \A s \in Principals, h \in Handles :
        (JustClosed /\ whenNotPaused /\ OtherwiseAccepted(s, h)) =>
            submitAttestationResult(s, h) = "BatchNotActive"

\* C20, amended: submitAttestation never returns BatchNotActive: the
\* current batch is active in every state, closeCurrentBatch having opened
\* its successor in the same transaction; right after closeCurrentBatch a
\* submit that passes every other gate is accepted and is logged under the
\* newly opened batch, the closed batch's submissions staying as they are.
C20_SubmitAfterCloseAccepted ==
    \A s \in Principals, h \in Handles :
        /\ submitAttestationResult(s, h) # "BatchNotActive"
        /\ (JustClosed /\ whenNotPaused /\ OtherwiseAccepted(s, h)) =>
               /\ batches[currentBatchId].active
               /\ ~batches[currentBatchId - 1].active
               /\ submitAttestationResult(s, h) = "ok"
               /\ calls < MaxCalls =>
                      ENABLED (/\ submitAttestation(s, h)
                               /\ submitted'[currentBatchId] = <<h>>
                               /\ submitted'[currentBatchId - 1]
                                      = submitted[currentBatchId - 1])

\* batch 1 was closed empty and, at the same block time, a provider's
\* submission was accepted into batch 2
C20_Witness ==
    \E s \in Principals :
        /\ closedLog = <<1>>
        /\ submitted[1] = <<>>
        /\ submitted[2] = <<1>>
        /\ lastAccepted[s] = batches[1].closedAt
        /\ batches[2].active

\* a submit of an uninitialized handle that passes the provider, pause and
\* cooldown gates
UninitializedSubmit(s, h) ==
    /\ onlyProvider(s)
    /\ whenNotPaused
    /\ respectCooldown(s)
    /\ h = UninitializedHandle

OwnerGateAnswers(s) ==
    <<unpauseResult(s), closeCurrentBatchResult(s),
      addProviderResult(s, s), removeProviderResult(s, s),
      transferOwnershipResult(s, s)>>

\* C22: exactly one address is the owner in every state, and the owner's
\* transferOwnership(a) is accepted for every address a (the zero address
\* and the owner itself included) and makes a the owner in that one step;
\* from then on the previous owner, if a is another address, gets NotOwner
\* from the owner-only calls and the new owner passes them.
C22_TransferReplacesOwner ==
    /\ Cardinality({a \in Addresses : onlyOwner(a)}) = 1
    /\ \A s \in Principals, a \in Addresses :
           (onlyOwner(s) /\ calls < MaxCalls) =>
               /\ transferOwnershipResult(s, a) = "ok"
               /\ ENABLED (/\ transferOwnership(s, a)
                           /\ owner' = a
                           /\ calls' = calls + 1
                           /\ (a # s) =>
                                  OwnerGateAnswers(s)' =
                                      <<"NotOwner", "NotOwner", "NotOwner",
                                        "NotOwner", "NotOwner">>
                           /\ OwnerGateAnswers(a)' =
                                  <<"ok", "ok", "ok", "ok", "ok">>)
               /\ ~ ENABLED (transferOwnership(s, a) /\ owner' # a)

\* ownership went from the deployer to another principal: the deployer is
\* now refused and the new owner is served
C22_Witness ==
    /\ owner \in Principals
    /\ owner # Deployer
    /\ OwnerGateAnswers(Deployer) =
           <<"NotOwner", "NotOwner", "NotOwner", "NotOwner", "NotOwner">>
    /\ OwnerGateAnswers(owner) = <<"ok", "ok", "ok", "ok", "ok">>

\* the owner's addProvider(p) (target TRUE) or removeProvider(p) (target
\* FALSE)
setMembership(s, p, target) ==
    IF target THEN addProvider(s, p) ELSE removeProvider(s, p)

\* C23: addProvider and removeProvider are idempotent and notify only on a
\* change: for every address the ProviderAdded events outnumber the
\* ProviderRemoved events by one when it is a provider and by none when it
\* is not; a call that finds p already in the target state is accepted and
\* leaves the provider set and the event log as they are; a call that
\* finds p in the other state flips p's flag and logs exactly one event.
C23_MembershipIdempotent ==
    /\ \A a \in Addresses :
           providerEvents[a].added - providerEvents[a].removed
               = (IF isProvider[a] THEN 1 ELSE 0)
    /\ \A s, p \in Principals, target \in BOOLEAN :
           (onlyOwner(s) /\ calls < MaxCalls) =>
               /\ ENABLED (/\ setMembership(s, p, target)
                           /\ calls' = calls + 1
                           /\ isProvider'[p] = target)
               /\ (isProvider[p] = target) =>
                      ~ ENABLED (/\ setMembership(s, p, target)
                                 /\ \/ isProvider' # isProvider
                                    \/ providerEvents' # providerEvents
                                    \/ membership' # membership)
               /\ (isProvider[p] # target) =>
                      ~ ENABLED (/\ setMembership(s, p, target)
                                 /\ calls' # calls
                                 /\ providerEvents'[p].added
                                        + providerEvents'[p].removed
                                    # providerEvents[p].added
                                        + providerEvents[p].removed + 1)

\* bob was added, removed and added again, one event each time, and a
\* fourth accepted call repeated one of these without a further event
C23_Witness ==
    /\ isProvider["bob"]
    /\ providerEvents["bob"] = [added |-> 2, removed |-> 1]
    /\ providerEvents[Deployer] = [added |-> 1, removed |-> 0]
    /\ calls = 4
    /\ owner = Deployer
    /\ ~paused
    /\ cooldownSeconds = DefaultCooldown
    /\ currentBatchId = 1
    /\ submitted[1] = <<>>

\* C24: cooldownSeconds is positive in every state and is 60 after
\* construction; the owner's setCooldownSeconds(0) is refused and changes
\* nothing; the owner's setCooldownSeconds(v) with v > 0 is accepted, makes
\* v the interval and reports the interval before the call and v.
C24_CooldownPositive ==
    /\ cooldownSeconds > 0
    /\ (calls = 0) => (cooldownSeconds = DefaultCooldown)
    /\ \A s \in Principals :
           onlyOwner(s) =>
               /\ setCooldownSecondsResult(s, 0) = "Cooldown must be positive"
               /\ ~ ENABLED (setCooldownSeconds(s, 0) /\ vars' # vars)
               /\ \A v \in CooldownChoices \ {0} :
                      calls < MaxCalls =>
                          /\ ENABLED (/\ setCooldownSeconds(s, v)
                                      /\ calls' = calls + 1
                                      /\ cooldownSecondsUpdated(v)
                                             = <<cooldownSeconds,
                                                 cooldownSeconds'>>)
                          /\ ~ ENABLED (/\ setCooldownSeconds(s, v)
                                        /\ cooldownSeconds' # v)

\* the owner has set the interval to 2 seconds; a further call with 0 is
\* refused
C24_Witness ==
    \E s \in Principals :
        /\ onlyOwner(s)
        /\ cooldownSeconds = 2
        /\ setCooldownSecondsResult(s, 0) = "Cooldown must be positive"
        /\ setCooldownSecondsResult(s, 1) = "ok"

\* a step that moves a cooldown timestamp of address a sets it to now and
\* is an accepted submit (resp. requestBatchValidation) sent by a
StampedOnlyOnSuccess ==
    \A a \in Addresses :
        /\ lastSubmissionTime'[a] # lastSubmissionTime[a] =>
               /\ lastSubmissionTime'[a] = now
               /\ calls' = calls + 1
               /\ \E h \in Handles :
                      /\ submitAttestationResult(a, h) = "ok"
                      /\ submitted'[currentBatchId]
                             = Append(submitted[currentBatchId], h)
        /\ lastDecryptionRequestTime'[a] # lastDecryptionRequestTime[a] =>
               /\ lastDecryptionRequestTime'[a] = now
               /\ calls' = calls + 1
               /\ \E b \in BatchIds :
                      /\ requestBatchValidationResult(a, b) = "ok"
                      /\ requested'[nextRequestId] = b

\* every address's lastSubmissionTime is the time of its latest
\* AttestationSubmitted event (0: none)
StampsMatchLog ==
    \A a \in Addresses : lastSubmissionTime[a] = lastAccepted[a]

\* C25: a rejected call never consumes the cooldown window:
\* lastSubmissionTime[p] is the time of p's latest accepted submit,
\* lastSubmissionTime[p] and lastDecryptionRequestTime[p] are moved only by
\* p's own accepted submit and request, to now, and no refused call, for
\* whatever reason, moves either.
C25_RejectedCallKeepsCooldown ==
    [](StampsMatchLog) /\ [][StampedOnlyOnSuccess]_vars

\* a provider's accepted submission lies in the past and its next submit
\* is refused inside the window; the owner's request timestamp is set too
C25_Witness ==
    \E p \in Principals :
        /\ lastSubmissionTime[p] # 0
        /\ lastSubmissionTime[p] < now
        /\ submitAttestationResult(p, 1) = "CooldownActive"
        /\ \E o \in Principals : lastDecryptionRequestTime[o] # 0

\* the stored hash of requestId differs from the one the callback recomputes
hashDrifted(r) ==
    hashCiphertexts(callbackCiphertexts(r)) # decryptionContexts[r].stateHash

\* C26: the first failing guard names the error. submitAttestation:
\* NotProvider, then PausedError, then CooldownActive, and BatchNotActive
\* only when these three pass; requestBatchValidation: NotOwner, then
\* PausedError, then CooldownActive, and InvalidBatch only when these three
\* pass; myCallback: ReplayAttempt, then StateMismatch, and
\* DecryptionFailed only when neither applies.
C26_FirstFailingGuardWins ==
    /\ \A s \in Principals, h \in Handles :
           LET res == submitAttestationResult(s, h) IN
           /\ ~onlyProvider(s) => res = "NotProvider"
           /\ (onlyProvider(s) /\ ~whenNotPaused) => res = "PausedError"
           /\ (onlyProvider(s) /\ whenNotPaused /\ ~respectCooldown(s)) =>
                  res = "CooldownActive"
           /\ res = "BatchNotActive" =>
                  onlyProvider(s) /\ whenNotPaused /\ respectCooldown(s)
    /\ \A s \in Principals, b \in BatchIds :
           LET res == requestBatchValidationResult(s, b) IN
           /\ ~onlyOwner(s) => res = "NotOwner"
           /\ (onlyOwner(s) /\ ~whenNotPaused) => res = "PausedError"
           /\ (onlyOwner(s) /\ whenNotPaused /\ ~respectCooldown(s)) =>
                  res = "CooldownActive"
           /\ (onlyOwner(s) /\ whenNotPaused /\ respectCooldown(s)
                   /\ invalidBatch(b)) => res = "InvalidBatch"
    /\ \A r \in RequestIds, in \in CallbackInputs :
           LET res == myCallbackResult(r, in[1], in[2]) IN
           /\ decryptionContexts[r].processed => res = "ReplayAttempt"
           /\ (~decryptionContexts[r].processed /\ hashDrifted(r)) =>
                  res = "StateMismatch"
           /\ res = "DecryptionFailed" =>
                  ~decryptionContexts[r].processed /\ ~hashDrifted(r)

\* several guards fail at once: the contract is paused; one sender is
\* neither owner nor provider, another is owner and provider inside its
\* cooldown window; a consumed request gets a callback with a failed
\* proof, and a request id with no stored hash gets one too
C26_Witness ==
    \E s, t \in Principals, r \in Issued :
        /\ ~whenNotPaused
        /\ ~onlyProvider(s)
        /\ ~onlyOwner(s)
        /\ submitAttestationResult(s, UninitializedHandle) = "NotProvider"
        /\ requestBatchValidationResult(s, 0) = "NotOwner"
        /\ onlyProvider(t)
        /\ onlyOwner(t)
        /\ ~respectCooldown(t)
        /\ submitAttestationResult(t, UninitializedHandle) = "PausedError"
        /\ requestBatchValidationResult(t, 0) = "PausedError"
        /\ decryptionContexts[r].processed
        /\ myCallbackResult(r, ExpectedCleartextLen - 1, FALSE)
               = "ReplayAttempt"
        /\ myCallbackResult(0, ExpectedCleartextLen - 1, FALSE)
               = "StateMismatch"

\* C27: closeCurrentBatch never takes its InvalidBatch or BatchNotActive
\* branch: in every state the current batch exists (id non-zero) and is
\* active, so the call answers NotOwner to a non-owner and is accepted
\* from the owner, paused or not, closing the current batch and opening
\* the next.
C27_CloseAlwaysSucceedsForOwner ==
    /\ batches[currentBatchId].id # 0
    /\ \A s \in Principals :
           /\ closeCurrentBatchResult(s) \notin {"InvalidBatch", "BatchNotActive"}
           /\ onlyOwner(s) =>
                  /\ closeCurrentBatchResult(s) = "ok"
                  /\ calls < MaxCalls =>
                         ENABLED (/\ closeCurrentBatch(s)
                                  /\ calls' = calls + 1
                                  /\ closedLog' = Append(closedLog,
                                                         currentBatchId))

\* two batches were closed and the contract is paused: the owner's next
\* closeCurrentBatch is accepted all the same
C27_Witness ==
    \E s \in Principals :
        /\ onlyOwner(s)
        /\ paused
        /\ closedLog = <<1, 2>>
        /\ closeCurrentBatchResult(s) = "ok"
        /\ ENABLED (closeCurrentBatch(s) /\ closedLog' = <<1, 2, 3>>)

\* the batchId argument of the DecryptionCompleted event for requestId
completionBatchId(r) == decryptionContexts[r].batchId

\* a step that logs a DecryptionCompleted for r finds r in the
\* DecryptionRequested log already, with the batchId the completion carries
CompletionFollowsRequest ==
    \A r \in RequestIds :
        completed'[r] # completed[r] =>
            /\ r \in Issued
            /\ completionBatchId(r) = requested[r]
            /\ requested'[r] = requested[r]

\* a requestId that was never issued has no completion, is not processed,
\* and no callback for it is accepted, valid proof and 32 bytes included
NeverIssuedRefused ==
    \A r \in RequestIds \ Issued :
        /\ completed[r] = 0
        /\ ~decryptionContexts[r].processed
        /\ \A in \in CallbackInputs : myCallbackResult(r, in[1], in[2]) # "ok"

\* C28: a completion is always preceded by its request: every
\* DecryptionCompleted(requestId, batchId) is logged by a step that finds a
\* DecryptionRequested with that requestId and that batchId in the log,
\* and a callback for a requestId that was never issued is never accepted.
C28_CompletionAfterRequest ==
    [](NeverIssuedRefused) /\ [][CompletionFollowsRequest]_vars

\* request 1, issued for batch 1, has been completed while request 2 was
\* never issued and refuses the valid callback
C28_Witness ==
    /\ completed[1] = 1
    /\ requested[1] = 1
    /\ completionBatchId(1) = 1
    /\ 2 \notin Issued
    /\ myCallbackResult(2, ExpectedCleartextLen, TRUE) = "StateMismatch"

\* the step is a requestBatchValidation or a myCallback, accepted or not
CoordinatorStep ==
    \/ \E s \in Principals, b \in BatchIds : requestBatchValidation(s, b)
    \/ \E s \in Principals, r \in RequestIds, in \in CallbackInputs :
           myCallback(s, r, in[1], in[2])

\* the step is a closeCurrentBatch or a submitAttestation, accepted or not
LedgerStep ==
    \/ \E s \in Principals : closeCurrentBatch(s)
    \/ \E s \in Principals, h \in Handles : submitAttestation(s, h)

\* the step changes currentBatchId, a Batch record or the batch logs
BatchStateChanges ==
    \/ currentBatchId' # currentBatchId
    \/ batches' # batches
    \/ submitted' # submitted
    \/ opened' # opened
    \/ closedLog' # closedLog

\* the step changes a DecryptionContext or the request logs
RequestStateChanges ==
    \/ decryptionContexts' # decryptionContexts
    \/ requested' # requested
    \/ completed' # completed
    \/ nextRequestId' # nextRequestId

\* no requestBatchValidation or myCallback step changes batch state, and
\* no closeCurrentBatch or submitAttestation step changes request state
LedgerAndCoordinatorApart ==
    /\ BatchStateChanges => ~CoordinatorStep
    /\ RequestStateChanges => ~LedgerStep

\* C29: requestBatchValidation and the decryption callback never modify
\* batch state (currentBatchId and every batch's id, active, createdAt,
\* closedAt), whether accepted or refused, and closeCurrentBatch and
\* submitAttestation never modify a DecryptionRequest record.
C29_FrameBatchesVsRequests == [][LedgerAndCoordinatorApart]_vars

\* a batch was closed after a request was issued and consumed, and a
\* submission went into the open batch: batch 1 still carries the closing
\* time it got, the consumed request its batchId
C29_Witness ==
    /\ closedLog = <<1, 2>>
    /\ requested[1] = 1
    /\ decryptionContexts[1] =
           [batchId |-> 1,
            stateHash |-> hashCiphertexts(requestCiphertexts(1)),
            processed |-> TRUE]
    /\ submitted[3] # <<>>
    /\ ~batches[1].active
    /\ batches[1].closedAt = batches[2].createdAt

\* every batch below currentBatchId is closed, not before it was created
\* and at the very time its successor was created
ClosedBatchesConsistent ==
    \A b \in BatchIds :
        (1 <= b /\ b < currentBatchId) =>
            /\ ~batches[b].active
            /\ batches[b].closedAt # 0
            /\ batches[b].closedAt >= batches[b].createdAt
            /\ batches[b].closedAt = batches[b + 1].createdAt

\* a step keeps every closed batch as it is and the createdAt of every
\* batch that exists
ClosedBatchesFrozen ==
    \A b \in BatchIds :
        /\ batches[b].closedAt # 0 => batches'[b] = batches[b]
        /\ batches[b].id # 0 =>
               /\ batches'[b].createdAt = batches[b].createdAt
               /\ batches'[b].id = batches[b].id
               /\ ~batches[b].active => ~batches'[b].active

\* C30: closing is irreversible and time-consistent: a closed batch is
\* never active again and its createdAt and closedAt never change; every
\* batch with id < currentBatchId is closed; for every closed batch n,
\* closedAt(n) >= createdAt(n) and closedAt(n) = createdAt(n + 1).
C30_ClosingIrreversible ==
    [](ClosedBatchesConsistent) /\ [][ClosedBatchesFrozen]_vars

\* batches 1 and 2 were closed at different block times and batch 3 is
\* open
C30_Witness ==
    /\ currentBatchId = 3
    /\ batches[1].closedAt < batches[2].closedAt
    /\ batches[1].closedAt = batches[2].createdAt
    /\ batches[2].closedAt = batches[3].createdAt
    /\ batches[3].active
    /\ ~batches[1].active
    /\ ~batches[2].active

\* the requests issued so far for batch b
RequestsFor(b) == {r \in Issued : requested[r] = b}

\* a step keeps the context of every issued request other than r
OthersUntouched(r) ==
    \A q \in Issued \ {r} : decryptionContexts'[q] = decryptionContexts[q]

\* C31: a closed batch can be requested again, whatever requests exist for
\* it: the owner's request for a closed batch, pause and cooldown gates
\* passed, is accepted, is stored under a requestId not used before, as a
\* pending request, and leaves every earlier request as it was; the
\* accepted callback for one request changes no other request, so the
\* other requests for the batch stay pending and consumable.
C31_BatchRequestedRepeatedly ==
    /\ nextRequestId \notin Issued
    /\ \A s \in Principals, b \in BatchIds :
           (/\ onlyOwner(s)
            /\ whenNotPaused
            /\ respectCooldown(s)
            /\ 1 <= b
            /\ b < currentBatchId
            /\ calls < MaxCalls) =>
               /\ requestBatchValidationResult(s, b) = "ok"
               /\ ENABLED (/\ requestBatchValidation(s, b)
                           /\ requested'[nextRequestId] = b
                           /\ ~decryptionContexts'[nextRequestId].processed
                           /\ OthersUntouched(nextRequestId))
               /\ ~ ENABLED (/\ requestBatchValidation(s, b)
                             /\ ~OthersUntouched(nextRequestId))
    /\ \A r \in Pending, s \in Principals :
           /\ calls < MaxCalls =>
                  /\ ENABLED (/\ myCallback(s, r, ExpectedCleartextLen, TRUE)
                              /\ decryptionContexts'[r].processed
                              /\ OthersUntouched(r))
                  /\ ~ ENABLED (/\ myCallback(s, r, ExpectedCleartextLen, TRUE)
                                /\ ~OthersUntouched(r))
           /\ myCallbackResult(r, ExpectedCleartextLen, TRUE) = "ok"

\* batch 1 was requested twice; request 1 has been consumed, request 2 is
\* still pending and accepts the valid callback
C31_Witness ==
    /\ RequestsFor(1) = {1, 2}
    /\ decryptionContexts[1].processed
    /\ completed[1] = 1
    /\ 2 \in Pending
    /\ completed[2] = 0
    /\ myCallbackResult(2, ExpectedCleartextLen, TRUE) = "ok"

\* everything the contract stores and logs except the owner
AllButOwner ==
    <<isProvider, paused, cooldownSeconds, lastSubmissionTime,
      lastDecryptionRequestTime, currentBatchId, batches, decryptionContexts,
      nextRequestId, now, logs>>

\* C32: provider membership is independent of ownership: the deployer is
\* owner and provider after construction; the owner's transferOwnership
\* changes the owner and nothing else, the provider set included; an owner
\* that is not in the provider set gets NotProvider from submitAttestation,
\* and a provider that is not the owner submits as any provider does.
C32_MembershipIndependentOfOwnership ==
    /\ (calls = 0) => (owner = Deployer /\ isProvider[Deployer])
    /\ \A s \in Principals, a \in Addresses :
           (onlyOwner(s) /\ calls < MaxCalls) =>
               /\ ENABLED (/\ transferOwnership(s, a)
                           /\ owner' = a
                           /\ AllButOwner' = AllButOwner)
               /\ ~ ENABLED (/\ transferOwnership(s, a)
                             /\ AllButOwner' # AllButOwner)
    /\ \A s \in Principals, h \in Handles :
           /\ (onlyOwner(s) /\ ~isProvider[s]) =>
                  submitAttestationResult(s, h) = "NotProvider"
           /\ (~onlyOwner(s) /\ isProvider[s] /\ whenNotPaused
                   /\ respectCooldown(s) /\ h # UninitializedHandle) =>
                  submitAttestationResult(s, h) = "ok"

\* the deployer handed ownership to an address that was never added: the
\* deployer, still a provider, has had a submission accepted into batch 1
\* and the new owner is refused with NotProvider
C32_Witness ==
    \E s \in Principals :
        /\ onlyOwner(s)
        /\ s # Deployer
        /\ membership[s] = "none"
        /\ submitAttestationResult(s, 1) = "NotProvider"
        /\ isProvider[Deployer]
        /\ lastAccepted[Deployer] # 0
        /\ calls = 2

=============================================================================
